---------------------------- MODULE Spec2Model ----------------------------
(***************************************************************************)
(* Model of src/app.py: the batch generator of "termos de                  *)
(* responsabilidade" (formatar_cpf, mapear_ies, gerar_termo_pdf_bytes,     *)
(* criar_zip_termos and the Streamlit script main).                        *)
(*                                                                         *)
(* Text is modelled as a tuple of one-character strings, so that strip,    *)
(* upper and replace are computed character by character.                  *)
(***************************************************************************)
EXTENDS Integers, Sequences, FiniteSets, TLC

(***************************************************************************)
(* Bounds of the model.                                                    *)
(***************************************************************************)
\* largest number of rows of an uploaded table
MaxRows == 2
\* largest number of characters (digits) of a tax-id before separators are added
MaxCpfDigits == 12

(***************************************************************************)
(* Text helpers (Python str methods).                                      *)
(***************************************************************************)
LowerCase == <<"a","b","c","d","e","f","g","h","i","j","k","l","m",
               "n","o","p","q","r","s","t","u","v","w","x","y","z">>
UpperCase == <<"A","B","C","D","E","F","G","H","I","J","K","L","M",
               "N","O","P","Q","R","S","T","U","V","W","X","Y","Z">>

\* str.upper() on one character
UpperChar(c) ==
    IF \E k \in 1..26 : LowerCase[k] = c
    THEN UpperCase[CHOOSE k \in 1..26 : LowerCase[k] = c]
    ELSE c

\* str.lower() on one character (used to build input spellings only)
LowerChar(c) ==
    IF \E k \in 1..26 : UpperCase[k] = c
    THEN LowerCase[CHOOSE k \in 1..26 : UpperCase[k] = c]
    ELSE c

\* str.upper()
Upper(s) == [k \in 1..Len(s) |-> UpperChar(s[k])]

Lower(s) == [k \in 1..Len(s) |-> LowerChar(s[k])]

\* str.strip(): drops leading and trailing whitespace
Strip(s) ==
    LET ks == {k \in 1..Len(s) : s[k] # " "}
    IN  IF ks = {} THEN <<>>
        ELSE SubSeq(s, CHOOSE k \in ks : \A j \in ks : k <= j,
                       CHOOSE k \in ks : \A j \in ks : j <= k)

\* str.replace(old, new) for a one-character old
Replace(s, old, new) == [k \in 1..Len(s) |-> IF s[k] = old THEN new ELSE s[k]]

\* str.replace(old, '') for a one-character old
Remove(s, old) == SelectSeq(s, LAMBDA c : c # old)

\* a missing cell of the table (pandas NaN) and Python's None
NaN == <<"NaN">>
None == <<"None">>

\* str(value): the text of a cell; str(float('nan')) is 'nan'
Str(v) ==
    IF v = NaN THEN <<"n","a","n">>
    ELSE IF v = None THEN <<"N","o","n","e">>
    ELSE v

(***************************************************************************)
(* IES_CONFIG.  nome_completo is kept as a tuple of words.                 *)
(***************************************************************************)
UNIANDRADE == <<"U","N","I","A","N","D","R","A","D","E">>
UNIB == <<"U","N","I","B">>
UNISMG == <<"U","N","I","S","M","G">>

IES_CONFIG ==
    [ies \in {UNIANDRADE, UNIB, UNISMG} |->
        IF ies = UNIANDRADE THEN
            [nome_completo |-> <<"Centro", "Universitario", "Campos", "de",
                                 "Andrade", "-", "UNIANDRADE">>,
             sigla |-> UNIANDRADE,
             logo |-> "logos/logo uni.png"]
        ELSE IF ies = UNIB THEN
            [nome_completo |-> <<"Universidade", "Ibirapuera", "-", "UNIB">>,
             sigla |-> UNIB,
             logo |-> "logos/logo unib.png"]
        ELSE
            [nome_completo |-> <<"Centro", "Universitario", "Santa", "Maria",
                                 "da", "Gloria", "-", "UNISMG">>,
             sigla |-> UNISMG,
             logo |-> "logos/logo smg.png"]]

\* `ies in IES_CONFIG`
IesConfigurada(ies) == ies \in DOMAIN IES_CONFIG

(***************************************************************************)
(* formatar_cpf                                                            *)
(***************************************************************************)
\* a variant of formatar_cpf: blanks are not removed
formatar_cpf_sem_espaco(cpf) ==
    LET limpo == Remove(Remove(Str(cpf), "."), "-")
    IN  IF Len(limpo) = 11
        THEN SubSeq(limpo, 1, 3) \o <<".">> \o SubSeq(limpo, 4, 6) \o <<".">>
             \o SubSeq(limpo, 7, 9) \o <<"-">> \o SubSeq(limpo, 10, 11)
        ELSE limpo

formatar_cpf(cpf) ==
    LET limpo == Remove(Remove(Remove(Str(cpf), "."), "-"), " ")
    IN  IF Len(limpo) = 11
        THEN SubSeq(limpo, 1, 3) \o <<".">> \o SubSeq(limpo, 4, 6) \o <<".">>
             \o SubSeq(limpo, 7, 9) \o <<"-">> \o SubSeq(limpo, 10, 11)
        ELSE limpo

(***************************************************************************)
(* mapear_ies (nested in main)                                             *)
(***************************************************************************)
\* a variant of mapear_ies: the codes 201 and 301 exchanged
mapear_ies_trocado(valor) ==
    LET valor_str == Strip(Str(valor))
    IN  IF valor_str = <<"1">> THEN UNIANDRADE
        ELSE IF valor_str = <<"2","0","1">> THEN UNIB
        ELSE IF valor_str = <<"3","0","1">> THEN UNISMG
        ELSE Upper(valor_str)

mapear_ies(valor) ==
    LET valor_str == Strip(Str(valor))
    IN  IF valor_str = <<"1">> THEN UNIANDRADE
        ELSE IF valor_str = <<"2","0","1">> THEN UNISMG
        ELSE IF valor_str = <<"3","0","1">> THEN UNIB
        ELSE Upper(valor_str)

(***************************************************************************)
(* gerar_termo_pdf_bytes                                                   *)
(***************************************************************************)
NOME == <<"N","O","M","E">>
CPF == <<"C","P","F">>
RUA == <<"R","U","A">>
BAIRRO == <<"B","A","I","R","R","O">>
CIDADE == <<"C","I","D","A","D","E">>
UF == <<"U","F">>
CURSO == <<"C","U","R","S","O">>
IES == <<"I","E","S">>

\* the tail of the file name, '_termo.pdf'
SufixoArquivo == <<"_","t","e","r","m","o",".","p","d","f">>

\* a variant of NomeArquivo: the blanks of the name are kept
NomeArquivoComEspacos(nome, ies) ==
    nome \o <<"_">> \o ies \o <<"_","t","e","r","m","o",".","p","d","f">>

\* nome_arquivo = f"{aluno_data['NOME'].replace(' ', '_')}_{ies}_termo.pdf"
NomeArquivo(nome, ies) ==
    Replace(nome, " ", "_") \o <<"_">> \o ies \o SufixoArquivo

\* the wording of the third paragraph: "ministrado pelo" or "ministrado pela"
Variante(ies) == IF ies = UNIANDRADE THEN "pelo" ELSE "pela"

\* Paragraph(...) parses the intra-paragraph markup of its text and raises on
\* an unbalanced tag; a "<" inside an interpolated field unbalances it.
MarkupOk(s) == \A k \in 1..Len(s) : s[k] # "<"

\* The outcome of gerar_termo_pdf_bytes(aluno_data, ies): either the raised
\* exception (erro, and the institution its message quotes) or the returned
\* pair (pdf, nome_arquivo).  The pdf is represented by the values
\* interpolated into it.
\* The logo files are taken here as absent, intact or unreadable, the states
\* in which the header and doc.build raise nothing; SpecTermo follows the
\* header and doc.build over every state of the files.
gerar_termo_pdf_bytes(aluno_data, ies) ==
    IF ~IesConfigurada(ies) THEN
        [erro |-> "ValueError: IES nao e valida", ies_msg |-> ies]
    ELSE IF aluno_data.NOME = NaN THEN
        \* a float has no .replace
        [erro |-> "AttributeError", ies_msg |-> <<>>]
    ELSE IF ~MarkupOk(Str(aluno_data.NOME)) THEN
        [erro |-> "ValueError: paragraph markup", ies_msg |-> <<>>]
    ELSE
        [erro |-> "",
         nome_arquivo |-> NomeArquivo(aluno_data.NOME, ies),
         pdf |-> [nome |-> aluno_data.NOME,
                  cpf |-> formatar_cpf(aluno_data.CPF),
                  curso |-> aluno_data.CURSO,
                  variante |-> Variante(ies),
                  instituicao |-> IES_CONFIG[ies].nome_completo,
                  sigla |-> IES_CONFIG[ies].sigla]]

(***************************************************************************)
(* gerar_termo_pdf_bytes step by step: the header (lines 145-182), the     *)
(* body (lines 184-254) and doc.build (line 257), over the state of the    *)
(* logo files on disk.                                                     *)
(***************************************************************************)
\* the logo paths of IES_CONFIG
Logos == {IES_CONFIG[i].logo : i \in DOMAIN IES_CONFIG}

\* what may stand at a logo path:
\*   "ausente"   no file;
\*   "integro"   an image file that opens and decodes;
\*   "ilegivel"  a file that cannot be opened as an image (Image(logo_path)
\*               or the read of imageWidth/imageHeight raises, lines 150-153);
\*   "truncado"  a file whose image header opens and gives a size, and whose
\*               pixel data do not decode: Image reads the file lazily, the
\*               size comes from the header (line 153) and the pixels are
\*               decoded when the flowable is drawn by doc.build (line 257)
EstadosLogo == {"ausente", "integro", "ilegivel", "truncado"}

\* os.path.exists(logo_path)
Existe(fs, logo_path) == fs[logo_path] # "ausente"

\* lines 150-167 raise nothing: the image opens and its size is read
AbreLogo(fs, logo_path) == fs[logo_path] \in {"integro", "truncado"}

Spacer == [tipo |-> "Spacer", conteudo |-> <<>>]

\* lines 146-182: the flowables the header step appends to story; the except
\* of line 173 and the else of line 178 append the same paragraph
Cabecalho(ies_info, fs) ==
    IF ies_info.logo # "" /\ Existe(fs, ies_info.logo)
    THEN IF AbreLogo(fs, ies_info.logo)
         THEN <<[tipo |-> "Image", conteudo |-> <<ies_info.logo>>], Spacer>>
         ELSE <<[tipo |-> "Paragraph", conteudo |-> ies_info.nome_completo], Spacer>>
    ELSE <<[tipo |-> "Paragraph", conteudo |-> ies_info.nome_completo], Spacer>>

\* lines 184-254: the flowables of the body, each paragraph by the values
\* interpolated into it
Corpo(aluno_data, ies) ==
    <<[tipo |-> "Paragraph", conteudo |-> <<"TERMO DE RESPONSABILIDADE">>],
      Spacer,
      [tipo |-> "Paragraph",
       conteudo |-> <<Str(aluno_data.NOME), formatar_cpf(aluno_data.CPF)>>],
      [tipo |-> "Paragraph", conteudo |-> <<>>],
      [tipo |-> "Paragraph",
       conteudo |-> <<Str(aluno_data.CURSO), <<Variante(ies)>>>>
                      \o IES_CONFIG[ies].nome_completo],
      [tipo |-> "Paragraph", conteudo |-> <<IES_CONFIG[ies].sigla>>],
      Spacer,
      [tipo |-> "Paragraph", conteudo |-> <<Str(aluno_data.CIDADE)>>],
      Spacer,
      [tipo |-> "Paragraph", conteudo |-> <<"_">>],
      [tipo |-> "Paragraph", conteudo |-> <<"Assinatura do Aluno (a)">>]>>

\* doc.build(story) draws every flowable; drawing an Image decodes its file
BuildOk(st, fs) ==
    \A k \in 1..Len(st) :
        st[k].tipo = "Image" => fs[st[k].conteudo[1]] = "integro"

(***************************************************************************)
(* Input tables.                                                           *)
(***************************************************************************)
colunas_necessarias == <<NOME, CPF, RUA, BAIRRO, CIDADE, UF, CURSO>>

Necessarias == {colunas_necessarias[k] : k \in 1..Len(colunas_necessarias)}

\* a variant of NormalizarColuna: upper-cased, not trimmed
NormalizarSemStrip(h) == Upper(h)

\* df.columns.str.strip().str.upper() on one header
NormalizarColuna(h) == Upper(Strip(h))

\* two spellings of a header: as is, and lower case between blanks
Grafia(c, estilo) ==
    IF estilo = "exata" THEN c ELSE <<" ">> \o Lower(c) \o <<" ">>

Estilos == {"exata", "minuscula"}

\* the header rows of the input tables: any subset of the required columns,
\* with or without an IES column, in either spelling
Cabecalhos ==
    {{Grafia(c, e) : c \in P} \cup (IF i THEN {Grafia(IES, e)} ELSE {}) :
        P \in SUBSET Necessarias, e \in Estilos, i \in BOOLEAN}

\* the name of a column as the key of a row: a row holds one cell per column
\* of the table, whatever the spelling of the header
Campo(c) ==
    IF c = NOME THEN "NOME" ELSE IF c = CPF THEN "CPF"
    ELSE IF c = RUA THEN "RUA" ELSE IF c = BAIRRO THEN "BAIRRO"
    ELSE IF c = CIDADE THEN "CIDADE" ELSE IF c = UF THEN "UF"
    ELSE IF c = CURSO THEN "CURSO" ELSE "IES"

Campos(h) == {Campo(NormalizarColuna(c)) : c \in h}

NomePool == {<<"A"," ","B">>, <<"<","i",">">>, NaN}

IesPool == {<<"1">>, <<" ","u","n","i","b">>, <<"X","Y","Z">>, NaN}

CpfAmostra == <<"1","2","3",".","4","5","6",".","7","8","9","-","0","1">>

\* the rows a table with header row h may hold
Linhas(h) ==
    {[f \in Campos(h) |->
        IF f = "NOME" THEN n
        ELSE IF f = "IES" THEN i
        ELSE IF f = "CPF" THEN CpfAmostra
        ELSE <<"x">>] : n \in NomePool, i \in IesPool}

RECURSIVE SeqsUpTo(_, _)
SeqsUpTo(S, n) ==
    IF n = 0 THEN {<<>>}
    ELSE LET shorter == SeqsUpTo(S, n - 1)
         IN  shorter \cup {Append(q, x) : q \in {r \in shorter : Len(r) = n - 1}, x \in S}

\* the header row is complete: every required column is present
Completo(h) == Necessarias \subseteq {NormalizarColuna(c) : c \in h}

\* one row of fixed values under header row h
LinhaAmostra(h) ==
    [f \in Campos(h) |->
        IF f = "NOME" THEN <<"A"," ","B">>
        ELSE IF f = "IES" THEN <<"1">>
        ELSE IF f = "CPF" THEN CpfAmostra
        ELSE <<"x">>]

\* the uploaded tables: up to MaxRows rows under a complete header row; the
\* rows under an incomplete header row are read by mapear_ies alone, and an
\* empty table and a one-row table stand for them
Planilhas ==
    UNION {{[colunas |-> h, linhas |-> l] :
                l \in IF Completo(h) THEN SeqsUpTo(Linhas(h), MaxRows)
                      ELSE {<<>>, <<LinhaAmostra(h)>>}} : h \in Cabecalhos}

\* no file in the uploader
SemArquivo == [colunas |-> {}, linhas |-> <<>>]

(***************************************************************************)
(* State.                                                                  *)
(***************************************************************************)
VARIABLES
    ies_selecionada,   \* st.session_state['ies_selecionada'], None when absent
    planilha,          \* the file held by the uploader, as read by pandas
    df_columns,        \* df.columns after line 399
    df,                \* the rows of df after line 418
    colunas_faltando,  \* the list reported at line 425
    pc,                \* where the last run of the script stopped
    ies_padrao,        \* the argument of criar_zip_termos
    index,             \* the row index of the loop of criar_zip_termos
    ies_local,         \* its local ies: the institution of the last row handled
    sucesso,           \* its success counter
    erros,             \* its error list
    zip_file,          \* the entries written to the archive, in order
    cpf_in,            \* an argument of formatar_cpf
    cpf_out,           \* its result
    cpf_out2,          \* the result of formatting the result again
    valor,             \* an argument of mapear_ies
    mapeado,           \* its result
    resolvido,         \* the institution criar_zip_termos derives from it
    arquivos,          \* the disk: the state of the file at each logo path
    dados_termo,       \* the argument aluno_data of gerar_termo_pdf_bytes
    ies_termo,         \* its argument ies
    story,             \* its list of flowables
    retorno            \* what it returned or raised

vars == <<ies_selecionada, planilha, df_columns, df, colunas_faltando, pc,
          ies_padrao, index, ies_local, sucesso, erros, zip_file,
          cpf_in, cpf_out, cpf_out2, valor, mapeado, resolvido,
          arquivos, dados_termo, ies_termo, story, retorno>>

lote == <<ies_padrao, index, ies_local, sucesso, erros, zip_file>>

cpfs == <<cpf_in, cpf_out, cpf_out2, valor, mapeado, resolvido>>

termo == <<arquivos, dados_termo, ies_termo, story, retorno>>

tabela == <<planilha, df_columns, df, colunas_faltando>>

(***************************************************************************)
(* main: reading and validating the uploaded table (lines 390-427).        *)
(***************************************************************************)
\* df.columns = df.columns.str.strip().str.upper()
ColunasDe(h) == {NormalizarColuna(c) : c \in h}

\* df['IES'] = df['IES'].apply(mapear_ies), when the column exists
MapearColuna(l, cols) ==
    IF IES \in cols THEN [l EXCEPT !.IES = mapear_ies(@)] ELSE l

\* the rows of df after lines 399-418
LerPlanilha(p) ==
    [k \in 1..Len(p.linhas) |-> MapearColuna(p.linhas[k], ColunasDe(p.colunas))]

\* colunas_faltando = [col for col in colunas_necessarias if col not in df.columns]
ColunasFaltando(cols) ==
    SelectSeq(colunas_necessarias, LAMBDA c : c \notin cols)

(***************************************************************************)
(* criar_zip_termos: one iteration of the loop (lines 290-319).            *)
(***************************************************************************)
\* a variant of IesDoAluno: a blank cell falls back to the default
IesDoAlunoPadraoSeVazio(row, cols, padrao) ==
    IF IES \in cols /\ row.IES # <<"N","A","N">>
    THEN Upper(Strip(Str(row.IES)))
    ELSE padrao

\* lines 295-298: the institution of this row
IesDoAluno(row, cols, padrao) ==
    IF IES \in cols THEN Upper(Strip(Str(row.IES))) ELSE padrao

\* lines 292-305: what the try block raises or renders for this row
ProcessarLinha(row, cols, padrao) ==
    LET ies == IesDoAluno(row, cols, padrao)
    IN  IF ~IesConfigurada(ies)
        THEN [erro |-> "ValueError: IES invalida", ies_msg |-> ies]
        ELSE gerar_termo_pdf_bytes(row, ies)

\* a variant of Writestr: an archive keyed by name, where writing under a
\* name already present replaces the entry
WritestrSubstitui(zf, r, idx) ==
    Append(SelectSeq(zf, LAMBDA e : e.nome_arquivo # r.nome_arquivo),
           [nome_arquivo |-> r.nome_arquivo, pdf |-> r.pdf, origem |-> idx])

\* zip_file.writestr(nome_arquivo, pdf_bytes): a new entry at the end of the
\* archive; origem records the row whose data the bytes were rendered from
Writestr(zf, r, idx) ==
    Append(zf, [nome_arquivo |-> r.nome_arquivo, pdf |-> r.pdf, origem |-> idx])

\* a variant of ErroMsg: the row is named by its 0-based index
ErroMsgBaseZero(idx, row, r) ==
    [linha |-> idx, nome |-> row.NOME, msg |-> r.erro, ies_msg |-> r.ies_msg]

\* erro_msg = f"Erro na linha {index+1} ({row.get('NOME', ...)}): {str(e)}"
ErroMsg(idx, row, r) ==
    [linha |-> idx + 1, nome |-> row.NOME, msg |-> r.erro, ies_msg |-> r.ies_msg]

\* a variant of ProximoIndex: a failure ends the loop
ProximoIndexAborta(idx, r, total) == IF r.erro = "" THEN idx + 1 ELSE total

\* the for loop: the next row follows whatever the try block did
ProximoIndex(idx, r, total) == idx + 1

\* ZipFile.read(name) / extraction: the entry a name resolves to is the last
\* one written under that name (NameToInfo keeps one entry per name)
LerDoZip(zf, nome) ==
    LET ks == {k \in 1..Len(zf) : zf[k].nome_arquivo = nome}
    IN  zf[CHOOSE k \in ks : \A j \in ks : j <= k]

(***************************************************************************)
(* Actions of the main specification: one per run of the script main, and  *)
(* one per step of criar_zip_termos inside the run that generates.         *)
(***************************************************************************)
Configuradas == DOMAIN IES_CONFIG

loteVazio ==
    /\ ies_padrao' = None
    /\ index' = 0
    /\ ies_local' = None
    /\ sucesso' = 0
    /\ erros' = <<>>
    /\ zip_file' = <<>>

\* gerar_termo_pdf_bytes is not being followed step by step
termoParado ==
    /\ arquivos = [p \in Logos |-> "ausente"]
    /\ dados_termo = <<>>
    /\ ies_termo = None
    /\ story = <<>>
    /\ retorno = None

Init ==
    /\ ies_selecionada = None
    /\ planilha = SemArquivo
    /\ df_columns = {}
    /\ df = <<>>
    /\ colunas_faltando = <<>>
    /\ pc = "sem_ies"
    /\ ies_padrao = None
    /\ index = 0
    /\ ies_local = None
    /\ sucesso = 0
    /\ erros = <<>>
    /\ zip_file = <<>>
    /\ cpf_in = <<>>
    /\ cpf_out = <<>>
    /\ cpf_out2 = <<>>
    /\ valor = <<>>
    /\ mapeado = <<>>
    /\ resolvido = <<>>
    /\ termoParado

\* a variant of ClicarIES: the buttons toggle, a click on the institution
\* already selected removes the selection
ClicarIESAlterna(ies) ==
    /\ pc # "gerando"
    /\ ies_selecionada' = IF ies_selecionada = ies THEN None ELSE ies
    /\ pc' = IF pc = "sem_ies" THEN "sem_arquivo"
             ELSE IF pc = "resumo" THEN "carregado"
             ELSE pc
    /\ loteVazio
    /\ UNCHANGED <<tabela, cpfs, termo>>

\* lines 350-378: a click on one of the three buttons; the script runs again
\* over the same file and stops where it shows the table (or its error)
ClicarIES(ies) ==
    /\ pc # "gerando"
    /\ ies_selecionada' = ies
    /\ pc' = IF pc = "sem_ies" THEN "sem_arquivo"
             ELSE IF pc = "resumo" THEN "carregado"
             ELSE pc
    /\ loteVazio
    /\ UNCHANGED <<tabela, cpfs, termo>>

\* lines 384-427: a file is put in the empty uploader and the script runs
\* (replacing a file is RemoverArquivo followed by Upload)
Upload ==
    /\ pc = "sem_arquivo"
    /\ \E p \in Planilhas :
        /\ planilha' = p
        /\ df_columns' = ColunasDe(p.colunas)
        /\ df' = LerPlanilha(p)
        /\ colunas_faltando' = ColunasFaltando(ColunasDe(p.colunas))
        /\ pc' = IF ColunasFaltando(ColunasDe(p.colunas)) # <<>>
                 THEN "colunas_faltando"
                 ELSE "carregado"
    /\ loteVazio
    /\ UNCHANGED <<ies_selecionada, cpfs, termo>>

\* the file is taken out of the uploader (line 506: the instructions are shown)
RemoverArquivo ==
    /\ pc \in {"colunas_faltando", "carregado", "resumo"}
    /\ planilha' = SemArquivo
    /\ df_columns' = {}
    /\ df' = <<>>
    /\ colunas_faltando' = <<>>
    /\ pc' = "sem_arquivo"
    /\ loteVazio
    /\ UNCHANGED <<ies_selecionada, cpfs, termo>>

\* lines 441-463 and 277-288: the generate button; criar_zip_termos is entered
ClicarGerar ==
    /\ pc \in {"carregado", "resumo"}
    /\ ies_padrao' = ies_selecionada
    /\ index' = 0
    /\ ies_local' = None
    /\ sucesso' = 0
    /\ erros' = <<>>
    /\ zip_file' = <<>>
    /\ pc' = "gerando"
    /\ UNCHANGED <<ies_selecionada, tabela, cpfs, termo>>

\* lines 290-319: one iteration of the loop
Iteracao ==
    /\ pc = "gerando"
    /\ index < Len(df)
    /\ LET row == df[index + 1]
           r == ProcessarLinha(row, df_columns, ies_padrao)
       IN  /\ ies_local' = IesDoAluno(row, df_columns, ies_padrao)
           /\ IF r.erro = ""
              THEN /\ zip_file' = Writestr(zip_file, r, index)
                   /\ sucesso' = sucesso + 1
                   /\ erros' = erros
              ELSE /\ erros' = Append(erros, ErroMsg(index, row, r))
                   /\ zip_file' = zip_file
                   /\ sucesso' = sucesso
           /\ index' = ProximoIndex(index, r, Len(df))
    /\ UNCHANGED <<ies_selecionada, tabela, pc, ies_padrao, cpfs, termo>>

\* lines 321-327 and 465-498: the loop is over, the archive is closed and the
\* summary is returned and shown
Retornar ==
    /\ pc = "gerando"
    /\ index = Len(df)
    /\ pc' = "resumo"
    /\ UNCHANGED <<ies_selecionada, tabela, lote, cpfs, termo>>

Next ==
    \/ \E ies \in Configuradas : ClicarIES(ies)
    \/ Upload
    \/ RemoverArquivo
    \/ ClicarGerar
    \/ Iteracao
    \/ Retornar

Spec == Init /\ [][Next]_vars

(***************************************************************************)
(* Specification of formatar_cpf alone: the argument is drawn from         *)
(* CpfEntradas, formatted, and the result formatted again.                 *)
(***************************************************************************)
Digitos == <<"0","1","2","3","4","5","6","7","8","9">>

Digito(k, semente) == Digitos[((k * semente) % 10) + 1]

Separadores == {".", "-", " "}

\* where separators may stand: before the first digit, after the 3rd, 6th,
\* 9th and 11th
Posicoes == {0, 3, 6, 9, 11}

EstilosCpf == {"pontuado", "espacos", "hifens"}

Separador(k, estilo) ==
    IF estilo = "espacos" THEN " "
    ELSE IF estilo = "hifens" THEN "-"
    ELSE IF k \in {3, 6} THEN "."
    ELSE IF k = 9 THEN "-"
    ELSE " "

\* digits k+1..n of the pattern, with a separator after each position of P
RECURSIVE Montar(_, _, _, _, _)
Montar(n, semente, P, estilo, k) ==
    IF k > n THEN <<>>
    ELSE (IF k > 0 THEN <<Digito(k, semente)>> ELSE <<>>)
         \o (IF k \in P THEN <<Separador(k, estilo)>> ELSE <<>>)
         \o Montar(n, semente, P, estilo, k + 1)

CpfEntradas ==
    {Montar(n, s, P, e, 0) :
        n \in 0..MaxCpfDigits, s \in {1, 3}, P \in SUBSET Posicoes, e \in EstilosCpf}
    \cup {NaN}

restoCpf ==
    <<ies_selecionada, planilha, df_columns, df, colunas_faltando,
      ies_padrao, index, ies_local, sucesso, erros, zip_file, valor, mapeado, resolvido,
      arquivos, dados_termo, ies_termo, story, retorno>>

InitCpf ==
    /\ ies_selecionada = None
    /\ planilha = SemArquivo
    /\ df_columns = {}
    /\ df = <<>>
    /\ colunas_faltando = <<>>
    /\ pc = "cpf_entrada"
    /\ ies_padrao = None
    /\ index = 0
    /\ ies_local = None
    /\ sucesso = 0
    /\ erros = <<>>
    /\ zip_file = <<>>
    /\ cpf_in \in CpfEntradas
    /\ cpf_out = <<>>
    /\ cpf_out2 = <<>>
    /\ valor = <<>>
    /\ mapeado = <<>>
    /\ resolvido = <<>>
    /\ termoParado

\* cpf_formatado = formatar_cpf(aluno_data['CPF'])
Formatar ==
    /\ pc = "cpf_entrada"
    /\ cpf_out' = formatar_cpf(cpf_in)
    /\ pc' = "cpf_formatado"
    /\ UNCHANGED <<restoCpf, cpf_in, cpf_out2>>

\* formatar_cpf applied to its own output
Reformatar ==
    /\ pc = "cpf_formatado"
    /\ cpf_out2' = formatar_cpf(cpf_out)
    /\ pc' = "cpf_reformatado"
    /\ UNCHANGED <<restoCpf, cpf_in, cpf_out>>

NextCpf == Formatar \/ Reformatar

SpecCpf == InitCpf /\ [][NextCpf]_vars

(***************************************************************************)
(* Specification of the institution code of one cell: mapear_ies (line     *)
(* 418) followed by the derivation and check of criar_zip_termos (lines    *)
(* 295-301).                                                               *)
(***************************************************************************)
TextosIes ==
    {<<"1">>, <<"2","0","1">>, <<"3","0","1">>, <<"2">>, <<"1","0">>,
     <<"1",".","0">>, <<"1"," ","1">>, <<"u","n","i","b">>, <<"U","N","I","B">>,
     <<"U","n","i","b">>, <<"u","n","i","s","m","g">>,
     <<"u","n","i","a","n","d","r","a","d","e">>, <<"x","y","z">>, <<>>}

Margens == {<<>>, <<" ">>}

ValoresIes == {a \o t \o b : a \in Margens, t \in TextosIes, b \in Margens} \cup {NaN}

restoIes ==
    <<ies_selecionada, planilha, df_columns, df, colunas_faltando,
      ies_padrao, index, ies_local, sucesso, erros, zip_file, cpf_in, cpf_out, cpf_out2,
      arquivos, dados_termo, ies_termo, story, retorno>>

InitIes ==
    /\ ies_selecionada \in Configuradas
    /\ planilha = SemArquivo
    /\ df_columns = {}
    /\ df = <<>>
    /\ colunas_faltando = <<>>
    /\ pc = "ies_entrada"
    /\ ies_padrao = None
    /\ index = 0
    /\ ies_local = None
    /\ sucesso = 0
    /\ erros = <<>>
    /\ zip_file = <<>>
    /\ cpf_in = <<>>
    /\ cpf_out = <<>>
    /\ cpf_out2 = <<>>
    /\ valor \in ValoresIes
    /\ mapeado = <<>>
    /\ resolvido = <<>>
    /\ termoParado

\* df['IES'] = df['IES'].apply(mapear_ies)
Mapear ==
    /\ pc = "ies_entrada"
    /\ mapeado' = mapear_ies(valor)
    /\ pc' = "ies_mapeado"
    /\ UNCHANGED <<restoIes, valor, resolvido>>

\* ies = str(row['IES']).strip().upper() in criar_zip_termos
Resolver ==
    /\ pc = "ies_mapeado"
    /\ resolvido' = IesDoAluno([IES |-> mapeado], {IES}, ies_selecionada)
    /\ pc' = "ies_resolvido"
    /\ UNCHANGED <<restoIes, valor, mapeado>>

NextIes == Mapear \/ Resolver

SpecIes == InitIes /\ [][NextIes]_vars

(***************************************************************************)
(* Specification of gerar_termo_pdf_bytes alone, step by step: the         *)
(* arguments and the state of the logo files are drawn at the start.       *)
(***************************************************************************)
\* the rows of a table with every required column and no IES column
LinhasTermo == Linhas({Grafia(c, "exata") : c \in Necessarias})

IesTermo == Configuradas \cup {<<"X","Y","Z">>}

restoTermo ==
    <<ies_selecionada, planilha, df_columns, df, colunas_faltando,
      ies_padrao, index, ies_local, sucesso, erros, zip_file,
      cpf_in, cpf_out, cpf_out2, valor, mapeado, resolvido>>

InitTermo ==
    /\ ies_selecionada = None
    /\ planilha = SemArquivo
    /\ df_columns = {}
    /\ df = <<>>
    /\ colunas_faltando = <<>>
    /\ pc = "termo_chamado"
    /\ ies_padrao = None
    /\ index = 0
    /\ ies_local = None
    /\ sucesso = 0
    /\ erros = <<>>
    /\ zip_file = <<>>
    /\ cpf_in = <<>>
    /\ cpf_out = <<>>
    /\ cpf_out2 = <<>>
    /\ valor = <<>>
    /\ mapeado = <<>>
    /\ resolvido = <<>>
    /\ arquivos \in [Logos -> EstadosLogo]
    /\ dados_termo \in LinhasTermo
    /\ ies_termo \in IesTermo
    /\ story = <<>>
    /\ retorno = None

\* lines 74-143: the institution is validated, the file name derived, the
\* document and the styles created, story = []
IniciarTermo ==
    /\ pc = "termo_chamado"
    /\ IF ~IesConfigurada(ies_termo) THEN
           /\ retorno' = [erro |-> "ValueError: IES nao e valida"]
           /\ pc' = "termo_fim"
       ELSE IF dados_termo.NOME = NaN THEN
           /\ retorno' = [erro |-> "AttributeError"]
           /\ pc' = "termo_fim"
       ELSE
           /\ retorno' = retorno
           /\ pc' = "termo_cabecalho"
    /\ story' = <<>>
    /\ UNCHANGED <<restoTermo, arquivos, dados_termo, ies_termo>>

\* lines 145-182: the header
MontarCabecalho ==
    /\ pc = "termo_cabecalho"
    /\ story' = story \o Cabecalho(IES_CONFIG[ies_termo], arquivos)
    /\ pc' = "termo_corpo"
    /\ UNCHANGED <<restoTermo, arquivos, dados_termo, ies_termo, retorno>>

\* lines 184-254: the title, the paragraphs, the date and the signature
MontarCorpo ==
    /\ pc = "termo_corpo"
    /\ IF ~MarkupOk(Str(dados_termo.NOME)) THEN
           /\ retorno' = [erro |-> "ValueError: paragraph markup"]
           /\ story' = story
           /\ pc' = "termo_fim"
       ELSE
           /\ retorno' = retorno
           /\ story' = story \o Corpo(dados_termo, ies_termo)
           /\ pc' = "termo_build"
    /\ UNCHANGED <<restoTermo, arquivos, dados_termo, ies_termo>>

\* lines 256-263: doc.build(story), and the return of the bytes and the name
ConstruirPdf ==
    /\ pc = "termo_build"
    /\ retorno' =
         IF BuildOk(story, arquivos)
         THEN [erro |-> "",
               nome_arquivo |-> NomeArquivo(dados_termo.NOME, ies_termo),
               paginas |-> story]
         ELSE [erro |-> "OSError: cannot decode image"]
    /\ pc' = "termo_fim"
    /\ UNCHANGED <<restoTermo, arquivos, dados_termo, ies_termo, story>>

NextTermo == IniciarTermo \/ MontarCabecalho \/ MontarCorpo \/ ConstruirPdf

SpecTermo == InitTermo /\ [][NextTermo]_vars

(***************************************************************************)
(* Properties.                                                             *)
(***************************************************************************)
\* the row of df with row index i (0-based, as df.iterrows() yields it)
Linha(i) == df[i + 1]

\* the institution identifier of row i is not one of IES_CONFIG
IesInvalida(i) == IesDoAluno(Linha(i), df_columns, ies_padrao) \notin Configuradas

\* the fields of row i are such that rendering raises nothing
RenderizaBem(i) == Linha(i).NOME # NaN /\ MarkupOk(Linha(i).NOME)

Invalidas == {i \in 0..(Len(df) - 1) : IesInvalida(i)}

\* C1: when criar_zip_termos has returned for a batch of N rows of which
\* exactly K have an institution outside IES_CONFIG and the others render
\* without failure, the archive holds N-K entries, sucesso is N-K, and erros
\* has K entries, each naming a different one of the K rows.
C1_ContagemDoLote ==
    (pc = "resumo" /\ \A i \in 0..(Len(df) - 1) : IesInvalida(i) \/ RenderizaBem(i))
    => LET N == Len(df)
           K == Cardinality(Invalidas)
       IN  /\ Len(zip_file) = N - K
           /\ sucesso = N - K
           /\ Len(erros) = K
           /\ \A a, b \in 1..Len(erros) : a # b => erros[a].linha # erros[b].linha
           /\ \A a \in 1..Len(erros) : (erros[a].linha - 1) \in Invalidas

\* a batch of two rows, one of an unknown institution, one rendered, returned
C1_Witness ==
    /\ pc = "resumo"
    /\ Len(df) = 2
    /\ Cardinality(Invalidas) = 1
    /\ \A i \in 0..1 : IesInvalida(i) \/ RenderizaBem(i)
    /\ sucesso = 1

\* the rows behind the archive entries, and behind the error entries, in order
OrigensDoZip == [k \in 1..Len(zip_file) |-> zip_file[k].origem]

OrigensDosErros == [k \in 1..Len(erros) |-> erros[k].linha - 1]

Crescente(q) == \A a, b \in 1..Len(q) : a < b => q[a] < q[b]

\* every row below index was handled exactly once, and the entries of the
\* archive and of the error list stand in the order of their rows
EmOrdem ==
    pc \in {"gerando", "resumo"} =>
        /\ Crescente(OrigensDoZip)
        /\ Crescente(OrigensDosErros)
        /\ {OrigensDoZip[k] : k \in 1..Len(zip_file)}
             \cap {OrigensDosErros[k] : k \in 1..Len(erros)} = {}
        /\ {OrigensDoZip[k] : k \in 1..Len(zip_file)}
             \cup {OrigensDosErros[k] : k \in 1..Len(erros)} = 0..(index - 1)

\* a step inside criar_zip_termos handles the next row, whatever became of
\* the rows before it, or returns once no row is left
PassoDoLaco ==
    pc = "gerando" =>
        \/ pc' = "gerando" /\ index < Len(df) /\ index' = index + 1
        \/ pc' = "resumo" /\ index = Len(df) /\ index' = index

\* C2: criar_zip_termos handles every row exactly once and in input order; a
\* failure at a row never keeps the later rows from being handled: inside
\* the loop the index never passes the end (so the guard of the next
\* iteration or of the return holds), each step handles the next row or
\* returns at the end, the summary is returned only when every row was
\* handled, and the archive entries and the error entries stand in the order
\* of their rows.
C2_LoteCompleto ==
    /\ []EmOrdem
    /\ [][PassoDoLaco]_vars
    /\ [](pc = "gerando" => index <= Len(df))
    /\ [](pc = "resumo" => index = Len(df))

\* a returned batch whose first row failed and whose second row was rendered
C2_Witness ==
    /\ pc = "resumo"
    /\ Len(df) = 2
    /\ Len(erros) = 1 /\ erros[1].linha = 1
    /\ Len(zip_file) = 1 /\ zip_file[1].origem = 1

\* the rows handled so far that passed institution resolution and rendered
Renderizadas ==
    {i \in 0..(index - 1) : ~IesInvalida(i) /\ RenderizaBem(i)}

\* the file name derived for row i
NomeDerivado(i) ==
    NomeArquivo(Linha(i).NOME, IesDoAluno(Linha(i), df_columns, ies_padrao))

\* C3: while criar_zip_termos builds the archive and in its result, every
\* entry of the archive belongs to exactly one row, a row that passed
\* institution resolution and rendered; and every rendered row has exactly
\* one document, which is the one its derived file name retrieves.
C3_UmDocumentoPorRegistro ==
    pc \in {"gerando", "resumo"} =>
        /\ \A k \in 1..Len(zip_file) : zip_file[k].origem \in Renderizadas
        /\ \A a, b \in 1..Len(zip_file) :
             a # b => zip_file[a].origem # zip_file[b].origem
        /\ \A i \in Renderizadas :
             /\ \E k \in 1..Len(zip_file) : zip_file[k].nome_arquivo = NomeDerivado(i)
             /\ LerDoZip(zip_file, NomeDerivado(i)).origem = i

\* the header cell h names the column c once trimmed and upper-cased: h is
\* blanks, then the letters of c in either case, then blanks
Nomeia(h, c) ==
    \E a \in 0..Len(h) :
        /\ a + Len(c) <= Len(h)
        /\ \A k \in 1..Len(h) :
             IF k <= a \/ k > a + Len(c) THEN h[k] = " "
             ELSE h[k] = c[k - a] \/ h[k] = LowerChar(c[k - a])

\* the required columns no header cell of the uploaded table names
Ausentes == {c \in Necessarias : ~\E h \in planilha.colunas : Nomeia(h, c)}

\* C4: for an uploaded table that lacks a required column (headers compared
\* trimmed and upper-cased) the run stops before criar_zip_termos: nothing is
\* generated, and the reported list is exactly the missing required columns,
\* each once; a table that lacks none is not stopped, and criar_zip_termos
\* runs only after a run that reported no column.
C4_ColunasFaltando ==
    /\ pc \in {"colunas_faltando", "carregado"} =>
         /\ {colunas_faltando[k] : k \in 1..Len(colunas_faltando)} = Ausentes
         /\ Len(colunas_faltando) = Cardinality(Ausentes)
         /\ Ausentes # {} =>
              /\ pc = "colunas_faltando"
              /\ zip_file = <<>> /\ sucesso = 0 /\ erros = <<>> /\ index = 0
         /\ Ausentes = {} => pc = "carregado"
    /\ pc \in {"gerando", "resumo"} =>
         /\ colunas_faltando = <<>>
         /\ Necessarias \subseteq df_columns

\* a table in lower-case padded headers that lacks two required columns
C4_Witness ==
    /\ pc = "colunas_faltando"
    /\ Cardinality(Ausentes) = 2
    /\ Len(colunas_faltando) = 2
    /\ \E h \in planilha.colunas : h # NormalizarColuna(h)

\* the table carries an IES column
TemColunaIes == IES \in df_columns

\* the row handled last, as uploaded and as held by df
UltimaLida == planilha.linhas[index]

UltimaDoDf == df[index]

\* the row handled last has no institution value of its own: the table has no
\* IES column, or the cell of the row is blank
SemValorProprio == ~TemColunaIes \/ UltimaLida.IES = NaN

\* C5 as stated: the institution of a handled row is the row's own value
\* when the table carries an IES column and the default otherwise, and the
\* default is what a row without an institution value of its own gets.
C5_PadraoSemValor ==
    (pc \in {"gerando", "resumo"} /\ index > 0) =>
        /\ TemColunaIes => ies_local = UltimaDoDf.IES
        /\ ~TemColunaIes => ies_local = ies_padrao
        /\ SemValorProprio => ies_local = ies_padrao

\* C5 amended: the institution of a handled row is the row's own value when
\* the table carries an IES column and the default otherwise; the default is
\* used for the rows of a table without IES column only: a blank cell under
\* an IES column is not replaced by the default, it is read as 'NAN' and the
\* row is reported as an error.
C5_PadraoSemColuna ==
    (pc \in {"gerando", "resumo"} /\ index > 0) =>
        /\ TemColunaIes => ies_local = UltimaDoDf.IES
        /\ ~TemColunaIes => ies_local = ies_padrao
        /\ (TemColunaIes /\ UltimaLida.IES = NaN) =>
             /\ ies_local = <<"N","A","N">>
             /\ ies_local # ies_padrao
             /\ erros # <<>>
             /\ erros[Len(erros)].linha = index
             /\ erros[Len(erros)].ies_msg = <<"N","A","N">>

\* a handled row with a blank cell under an IES column, after a rendered row
C5_Witness ==
    /\ pc = "gerando" /\ index = 2
    /\ TemColunaIes
    /\ UltimaLida.IES = NaN
    /\ planilha.linhas[1].IES = <<" ","u","n","i","b">>
    /\ Len(zip_file) = 1

\* the characters of the argument that are no period, hyphen or blank
Limpos == SelectSeq(Str(cpf_in), LAMBDA c : c \notin {".", "-", " "})

SoDigitos(q) == \A k \in 1..Len(q) : \E d \in 1..10 : q[k] = Digitos[d]

\* C6: formatar_cpf turns an argument of exactly 11 digits (periods, hyphens
\* and blanks aside) into the same digits in the same order grouped as
\* XXX.XXX.XXX-XX; an argument of another length comes back as its cleaned
\* characters; formatting the result again returns the result.
C6_FormatoDoCpf ==
    /\ pc \in {"cpf_formatado", "cpf_reformatado"} =>
         /\ (Len(Limpos) = 11 /\ SoDigitos(Limpos)) =>
              /\ Len(cpf_out) = 14
              /\ cpf_out[4] = "." /\ cpf_out[8] = "." /\ cpf_out[12] = "-"
              /\ \A k \in 1..11 :
                   cpf_out[k + (IF k > 9 THEN 3 ELSE IF k > 6 THEN 2
                                ELSE IF k > 3 THEN 1 ELSE 0)] = Limpos[k]
         /\ Len(Limpos) # 11 => cpf_out = Limpos
    /\ pc = "cpf_reformatado" => cpf_out2 = cpf_out

\* eleven digits between blanks and hyphens, formatted and formatted again
C6_Witness ==
    /\ pc = "cpf_reformatado"
    /\ Len(Limpos) = 11 /\ SoDigitos(Limpos)
    /\ Len(Str(cpf_in)) = 16
    /\ \E k \in 1..Len(cpf_in) : cpf_in[k] = " "
    /\ cpf_out # cpf_in

\* the known numeric codes and the institution of each
Codigos == {<<"1">>, <<"2","0","1">>, <<"3","0","1">>}

DoCodigo(c) ==
    IF c = <<"1">> THEN UNIANDRADE
    ELSE IF c = <<"2","0","1">> THEN UNISMG
    ELSE UNIB

\* q is t without its leading and trailing blanks
SemMargens(q, t) ==
    /\ q = <<>> \/ (q[1] # " " /\ q[Len(q)] # " ")
    /\ \E a \in 0..Len(t) :
         /\ a + Len(q) <= Len(t)
         /\ \A k \in 1..Len(t) :
              IF k <= a \/ k > a + Len(q) THEN t[k] = " " ELSE t[k] = q[k - a]

\* q is t upper-cased, character by character
EmMaiusculas(q, t) ==
    /\ Len(q) = Len(t)
    /\ \A k \in 1..Len(t) :
         /\ q[k] = t[k] \/ t[k] = LowerChar(q[k])
         /\ q[k] = UpperChar(q[k])

\* C7 as stated: each known numeric code maps to its institution, every other
\* value maps to itself upper-cased, and the mapped value is what
\* criar_zip_termos resolves.
C7_MapaSemAparar ==
    /\ pc \in {"ies_mapeado", "ies_resolvido"} =>
         /\ Str(valor) \in Codigos => mapeado = DoCodigo(Str(valor))
         /\ Str(valor) \notin Codigos => EmMaiusculas(mapeado, Str(valor))
    /\ pc = "ies_resolvido" =>
         /\ resolvido = mapeado
         /\ Str(valor) \in Codigos => resolvido \in Configuradas

\* C7 amended: the value is trimmed first; the text that trims to a known
\* numeric code maps to the institution of the code, every other text maps
\* to itself trimmed and upper-cased, and the mapped value is what
\* criar_zip_termos resolves, so a cell whose text trims to a known code
\* resolves to the configured institution of the code.
C7_MapaAparado ==
    /\ pc \in {"ies_mapeado", "ies_resolvido"} =>
         /\ \A c \in Codigos : SemMargens(c, Str(valor)) => mapeado = DoCodigo(c)
         /\ (~\E c \in Codigos : SemMargens(c, Str(valor))) =>
              \E a, b \in 0..Len(Str(valor)) :
                  /\ SemMargens(SubSeq(Str(valor), a + 1, b), Str(valor))
                  /\ EmMaiusculas(mapeado, SubSeq(Str(valor), a + 1, b))
    /\ pc = "ies_resolvido" =>
         /\ resolvido = mapeado
         /\ \A c \in Codigos :
              SemMargens(c, Str(valor)) =>
                  resolvido = DoCodigo(c) /\ resolvido \in Configuradas

\* the code 201 between blanks, mapped and resolved to UNISMG
C7_Witness ==
    /\ pc = "ies_resolvido"
    /\ valor = <<" ","2","0","1"," ">>
    /\ resolvido = UNISMG

\* q is the file name of the name n under the institution identifier i: the
\* characters of n with "_" for each blank, then "_", i, and "_termo.pdf"
NomeEsperado(q, n, i) ==
    /\ Len(q) = Len(n) + 1 + Len(i) + 10
    /\ \A k \in 1..Len(n) : q[k] = (IF n[k] = " " THEN "_" ELSE n[k])
    /\ q[Len(n) + 1] = "_"
    /\ \A k \in 1..Len(i) : q[Len(n) + 1 + k] = i[k]
    /\ SubSeq(q, Len(n) + Len(i) + 2, Len(q))
         = <<"_","t","e","r","m","o",".","p","d","f">>

\* C8: the file name of every rendered record is the name of the student with
\* "_" for each blank, then "_", the institution identifier and "_termo.pdf";
\* records of equal name and institution get equal file names; the name
\* 'A B' under the code '1' gives 'A_B_UNIANDRADE_termo.pdf'.
C8_NomeDoArquivo ==
    pc \in {"gerando", "resumo"} =>
        /\ \A k \in 1..Len(zip_file) :
             LET e == zip_file[k]
                 lida == planilha.linhas[e.origem + 1]
             IN  /\ e.pdf.sigla \in Configuradas
                 /\ NomeEsperado(e.nome_arquivo, lida.NOME, e.pdf.sigla)
                 /\ (TemColunaIes /\ lida.IES = <<"1">> /\ lida.NOME = <<"A"," ","B">>) =>
                      e.nome_arquivo = <<"A","_","B","_">> \o UNIANDRADE
                                         \o <<"_","t","e","r","m","o",".","p","d","f">>
        /\ \A a, b \in 1..Len(zip_file) :
             (zip_file[a].pdf.nome = zip_file[b].pdf.nome
                 /\ zip_file[a].pdf.sigla = zip_file[b].pdf.sigla)
             => zip_file[a].nome_arquivo = zip_file[b].nome_arquivo

\* the record 'A B' under the code '1', rendered and written to the archive
C8_Witness ==
    /\ pc = "resumo"
    /\ TemColunaIes
    /\ \E k \in 1..Len(zip_file) :
         /\ planilha.linhas[zip_file[k].origem + 1].IES = <<"1">>
         /\ planilha.linhas[zip_file[k].origem + 1].NOME = <<"A"," ","B">>
         /\ zip_file[k].nome_arquivo[2] = "_"

\* row index fails: its institution is unknown or its fields do not render
Falha(i) == IesInvalida(i) \/ ~RenderizaBem(i)

\* q is p with exactly one more element at the end
UmaMais(q, p) == Len(q) = Len(p) + 1 /\ SubSeq(q, 1, Len(p)) = p

\* one iteration of the loop has exactly one of two effects
EfeitoDoPasso ==
    (pc = "gerando" /\ index' # index) =>
        \/ /\ ~Falha(index)
           /\ UmaMais(zip_file', zip_file)
           /\ zip_file'[Len(zip_file')].origem = index
           /\ sucesso' = sucesso + 1
           /\ erros' = erros
        \/ /\ Falha(index)
           /\ UmaMais(erros', erros)
           /\ erros'[Len(erros')].linha = index + 1
           /\ IesInvalida(index) => erros'[Len(erros')].msg = "ValueError: IES invalida"
           /\ zip_file' = zip_file
           /\ sucesso' = sucesso

\* C9: an iteration of criar_zip_termos either adds one entry to the archive
\* and one to sucesso and leaves erros alone, or (unknown institution, found
\* before rendering, or any other failure of the row) appends one error entry
\* naming the row and leaves the archive and sucesso alone; so after any
\* prefix of the rows sucesso plus the number of errors is the number of rows
\* handled.
C9_EfeitoDaIteracao ==
    /\ [][EfeitoDoPasso]_vars
    /\ [](pc \in {"gerando", "resumo"} =>
            /\ sucesso + Len(erros) = index
            /\ sucesso = Len(zip_file))

\* a batch in progress after one rendered row and one failed rendering
C9_Witness ==
    /\ pc = "gerando" /\ index = 2
    /\ sucesso = 1
    /\ Len(erros) = 1 /\ erros[1].linha = 2 /\ erros[1].msg = "AttributeError"

\* the grammatical gender of an institution's full name
Genero(nome_completo) ==
    IF nome_completo[1] = "Centro" THEN "masculino"
    ELSE IF nome_completo[1] = "Universidade" THEN "feminino"
    ELSE "outro"

\* C10: the wording of the liability clause is fixed by the institution
\* identifier alone and agrees with the gender of the institution's full
\* name: "pelo" for a "Centro Universitario", "pela" for a "Universidade".
C10_ConcordanciaDaVariante ==
    pc \in {"gerando", "resumo"} =>
        /\ \A k \in 1..Len(zip_file) :
             /\ Genero(zip_file[k].pdf.instituicao) = "masculino"
                  => zip_file[k].pdf.variante = "pelo"
             /\ Genero(zip_file[k].pdf.instituicao) = "feminino"
                  => zip_file[k].pdf.variante = "pela"
        /\ \A a, b \in 1..Len(zip_file) :
             zip_file[a].pdf.sigla = zip_file[b].pdf.sigla
             => zip_file[a].pdf.variante = zip_file[b].pdf.variante

\* the logo file of the institution of the call
LogoDoTermo == arquivos[IES_CONFIG[ies_termo].logo]

\* the fields of the call are such that the name and the body raise nothing
DadosRenderizam == dados_termo.NOME # NaN /\ MarkupOk(Str(dados_termo.NOME))

\* C11: in gerar_termo_pdf_bytes, for a configured institution (and fields
\* that render), the header step raises nothing whatever the state of the
\* logo file; the header is the logo if the file exists and loads, and the
\* full name of the institution as text if the file is absent or exists but
\* fails to load; in every case the body follows the header and a document
\* is returned.
C11_CabecalhoSemErro ==
    (ies_termo \in Configuradas /\ DadosRenderizam) =>
        /\ pc \in {"termo_corpo", "termo_build"} =>
             /\ retorno = None
             /\ Len(story) >= 2
             /\ story[1].tipo \in {"Image", "Paragraph"}
        /\ pc = "termo_fim" =>
             /\ retorno.erro = ""
             /\ Len(retorno.paginas) = 2 + Len(Corpo(dados_termo, ies_termo))
             /\ LogoDoTermo = "integro" =>
                  /\ retorno.paginas[1].tipo = "Image"
                  /\ retorno.paginas[1].conteudo = <<IES_CONFIG[ies_termo].logo>>
             /\ LogoDoTermo # "integro" =>
                  /\ retorno.paginas[1].tipo = "Paragraph"
                  /\ retorno.paginas[1].conteudo = IES_CONFIG[ies_termo].nome_completo

\* st.session_state holds a selection, and it is a configured identifier
SelecaoFeita == ies_selecionada \in Configuradas

\* the messages of the two unknown-institution errors (lines 75 and 302)
IesDesconhecida == {"ValueError: IES invalida", "ValueError: IES nao e valida"}

\* a step that enters criar_zip_termos does so with a selection made, and
\* hands it over as the default
EntradaComSelecao ==
    (pc # "gerando" /\ pc' = "gerando") =>
        /\ SelecaoFeita
        /\ ies_padrao' = ies_selecionada
        /\ ies_padrao' \in {UNIANDRADE, UNIB, UNISMG}

\* a step never removes the selection: what follows a selection is a
\* selection, the same or another configured identifier
SelecaoMantida == SelecaoFeita => SelecaoFeita'

\* C12: over every sequence of runs of main (institution clicks, uploads,
\* removals, generate clicks), criar_zip_termos is entered only with an
\* institution selected; the default it receives is one of UNIANDRADE, UNIB,
\* UNISMG; a step replaces the selection by a configured identifier and never
\* removes it; and for a table without IES column no record fails with an
\* unknown-institution error.
C12_PadraoSempreConfigurado ==
    /\ [][EntradaComSelecao]_vars
    /\ [][SelecaoMantida]_vars
    /\ [](pc # "sem_ies" => SelecaoFeita)
    /\ [](pc \in {"gerando", "resumo"} =>
            /\ ies_padrao \in {UNIANDRADE, UNIB, UNISMG}
            /\ ies_padrao = ies_selecionada
            /\ ~TemColunaIes =>
                 /\ index > 0 => ies_local = ies_padrao
                 /\ \A k \in 1..Len(erros) : erros[k].msg \notin IesDesconhecida)

\* a returned batch over a table without IES column under UNISMG, selected
\* by a click, with one document and one record that failed for its name
C12_Witness ==
    /\ pc = "resumo"
    /\ ~TemColunaIes
    /\ ies_padrao = UNISMG
    /\ Len(df) = 2
    /\ sucesso = 1
    /\ Len(erros) = 1 /\ erros[1].msg \notin IesDesconhecida

=============================================================================
